---- MODULE Spec2Model ----
(***************************************************************************)
(* Water-extraction calculator (src/src/App.tsx): the React component's    *)
(* state (formData, errors, result, isCalculating, showResult,             *)
(* isDropdownOpen), its event handlers, its two effects and the delayed    *)
(* continuation of calculateWaterVolume.                                   *)
(*                                                                         *)
(* Numbers.  A JavaScript number is modelled as an exact rational          *)
(* [kind |-> "num", n, d] in lowest terms with d > 0, or as NaN            *)
(* [kind |-> "nan"].  Binary floating-point rounding error is not          *)
(* modelled.  Strings are sequences of one-character strings, so that      *)
(* parseFloat, Number.prototype.toString and toFixed are computed digit by *)
(* digit.                                                                  *)
(***************************************************************************)
EXTENDS Integers, Sequences, FiniteSets, TLC

(* ---------------------------------------------------------------------- *)
(* Exact arithmetic                                                        *)
(* ---------------------------------------------------------------------- *)

Abs(x) == IF x < 0 THEN -x ELSE x

RECURSIVE GCD(_, _)
GCD(a, b) == IF b = 0 THEN a ELSE GCD(b, a % b)

RECURSIVE Pow10(_)
Pow10(k) == IF k = 0 THEN 1 ELSE 10 * Pow10(k - 1)

NaN == [kind |-> "nan", n |-> 0, d |-> 1]

\* the number n/d (d # 0) in lowest terms
Num(n, d) ==
    LET g == GCD(Abs(n), Abs(d))
        s == IF d < 0 THEN -1 ELSE 1
    IN  [kind |-> "num", n |-> s * (n \div g), d |-> s * (d \div g)]

IsNaN(x) == x.kind = "nan"

\* x * y ; NaN is absorbing
Mul(x, y) ==
    IF IsNaN(x) \/ IsNaN(y) THEN NaN
    ELSE LET g1 == GCD(Abs(x.n), y.d)
             g2 == GCD(Abs(y.n), x.d)
         IN  Num((x.n \div g1) * (y.n \div g2), (x.d \div g2) * (y.d \div g1))

\* x / y for y # 0
Div(x, y) ==
    IF IsNaN(x) \/ IsNaN(y) THEN NaN
    ELSE Mul(x, Num(y.d, y.n))

\* x - y
Sub(x, y) ==
    IF IsNaN(x) \/ IsNaN(y) THEN NaN
    ELSE Num(x.n * y.d - y.n * x.d, x.d * y.d)

\* -1, 0 or 1 as x is less than, equal to or greater than y: whole parts
\* first, then the fractions over their common denominator
Cmp(x, y) ==
    LET fx == x.n \div x.d
        fy == y.n \div y.d
        g  == GCD(x.d, y.d)
        rx == (x.n % x.d) * (y.d \div g)
        ry == (y.n % y.d) * (x.d \div g)
    IN  IF fx # fy THEN (IF fx < fy THEN -1 ELSE 1)
        ELSE IF rx < ry THEN -1 ELSE IF rx = ry THEN 0 ELSE 1

\* x < y ; every comparison with NaN is false
Lt(x, y) == ~IsNaN(x) /\ ~IsNaN(y) /\ Cmp(x, y) = -1

\* x <= y
Le(x, y) == ~IsNaN(x) /\ ~IsNaN(y) /\ Cmp(x, y) # 1

\* x > y
Gt(x, y) == Lt(y, x)

\* the integer k as a number
Whole(k) == Num(k, 1)

(* ---------------------------------------------------------------------- *)
(* Strings and conversions                                                 *)
(* ---------------------------------------------------------------------- *)

Digits == <<"0", "1", "2", "3", "4", "5", "6", "7", "8", "9">>

IsDigit(c) == \E i \in 1..10 : Digits[i] = c

DigitVal(c) == (CHOOSE i \in 1..10 : Digits[i] = c) - 1

\* length of the run of digits of s that starts at position i
RECURSIVE DigitRun(_, _)
DigitRun(s, i) ==
    IF i <= Len(s) /\ IsDigit(s[i]) THEN 1 + DigitRun(s, i + 1) ELSE 0

\* value of the k digits of s that start at position i
RECURSIVE DigitsVal(_, _, _)
DigitsVal(s, i, k) ==
    IF k = 0 THEN 0
    ELSE 10 * DigitsVal(s, i, k - 1) + DigitVal(s[i + k - 1])

\* parseFloat: the longest prefix of s of the shape [+-] digits [. digits]
\* (or [+-] . digits); NaN when the prefix holds no digit.  Characters
\* after the prefix are ignored.  Exponents, "Infinity" and leading white
\* space do not occur in the strings of this model.
parseFloat(s) ==
    LET signed == Len(s) >= 1 /\ s[1] \in {"-", "+"}
        neg    == Len(s) >= 1 /\ s[1] = "-"
        i      == IF signed THEN 2 ELSE 1
        ni     == DigitRun(s, i)
        dot    == i + ni <= Len(s) /\ s[i + ni] = "."
        nf     == IF dot THEN DigitRun(s, i + ni + 1) ELSE 0
        iv     == DigitsVal(s, i, ni)
        fv     == DigitsVal(s, i + ni + 1, nf)
        mag    == iv * Pow10(nf) + fv
    IN  IF ni = 0 /\ nf = 0 THEN NaN
        ELSE Num(IF neg THEN -mag ELSE mag, Pow10(nf))

\* decimal digits of a natural number
RECURSIVE NatStr(_)
NatStr(k) ==
    IF k < 10 THEN <<Digits[k + 1]>>
    ELSE NatStr(k \div 10) \o <<Digits[(k % 10) + 1]>>

\* digits of the fraction f/d (0 < f < d, terminating expansion)
RECURSIVE FracStr(_, _)
FracStr(f, d) ==
    LET q == (f * 10) \div d
        r == (f * 10) % d
    IN  <<Digits[q + 1]>> \o (IF r = 0 THEN <<>> ELSE FracStr(r, d))

\* Number.prototype.toString of a number with a terminating decimal
\* expansion (no exponent form: 1e-6 <= |x| < 1e21)
NumberToString(x) ==
    LET a  == Abs(x.n)
        ip == a \div x.d
        fp == a % x.d
    IN  (IF x.n < 0 THEN <<"-">> ELSE <<>>)
        \o NatStr(ip)
        \o (IF fp = 0 THEN <<>> ELSE <<".">> \o FracStr(fp, x.d))

\* k zeros
RECURSIVE Zeros(_)
Zeros(k) == IF k = 0 THEN <<>> ELSE <<"0">> \o Zeros(k - 1)

\* toFixed cutting the digits after the f-th instead of rounding
toFixed_truncate(x, f) ==
    LET a   == Num(Abs(x.n), x.d)
        sc  == Mul(a, Whole(Pow10(f)))
        n   == sc.n \div sc.d
        ds  == NatStr(n)
        pad == IF Len(ds) <= f THEN Zeros(f + 1 - Len(ds)) \o ds ELSE ds
        k   == Len(pad) - f
    IN  (IF x.n < 0 THEN <<"-">> ELSE <<>>)
        \o SubSeq(pad, 1, k)
        \o (IF f = 0 THEN <<>> ELSE <<".">> \o SubSeq(pad, k + 1, Len(pad)))

\* Number.prototype.toFixed(f): n is the integer nearest to x * 10^f, the
\* larger one on a tie; printed with exactly f fraction digits
toFixed(x, f) ==
    LET a   == Num(Abs(x.n), x.d)
        sc  == Mul(a, Whole(Pow10(f)))
        n   == (2 * sc.n + sc.d) \div (2 * sc.d)
        ds  == NatStr(n)
        pad == IF Len(ds) <= f THEN Zeros(f + 1 - Len(ds)) \o ds ELSE ds
        k   == Len(pad) - f
        neg == x.n < 0
    IN  (IF neg THEN <<"-">> ELSE <<>>)
        \o SubSeq(pad, 1, k)
        \o (IF f = 0 THEN <<>> ELSE <<".">> \o SubSeq(pad, k + 1, Len(pad)))

(* ---------------------------------------------------------------------- *)
(* Crop catalog                                                            *)
(* ---------------------------------------------------------------------- *)

CROP_TYPES == <<
    [id |-> "tunisian-olive",  name |-> "Tunisian Olive",
     biomassFactor |-> Num(175, 1000), moistureContent |-> Num(725, 10)],
    [id |-> "koroneiki-olive", name |-> "Koroneiki Olive",
     biomassFactor |-> Num(20, 100),   moistureContent |-> Whole(70)],
    [id |-> "leccino-olive",   name |-> "Leccino Olive",
     biomassFactor |-> Num(16, 100),   moistureContent |-> Num(725, 10)],
    [id |-> "apple-tree",      name |-> "Apple Tree",
     biomassFactor |-> Num(12, 100),   moistureContent |-> Whole(80)] >>

CropIds == {CROP_TYPES[i].id : i \in 1..Len(CROP_TYPES)}

\* Array.prototype.find by id: the index of the first entry whose id is
\* the requested one, 0 for undefined
CropFind(id) ==
    IF \E i \in 1..Len(CROP_TYPES) : CROP_TYPES[i].id = id
    THEN CHOOSE i \in 1..Len(CROP_TYPES) :
            /\ CROP_TYPES[i].id = id
            /\ \A j \in 1..(i - 1) : CROP_TYPES[j].id # id
    ELSE 0

\* CROP_TYPES.find(...) || CROP_TYPES[0]
SelectedCropOf(id) ==
    IF CropFind(id) # 0 THEN CROP_TYPES[CropFind(id)] ELSE CROP_TYPES[1]

(* ---------------------------------------------------------------------- *)
(* Form, validation, formula, formatting                                   *)
(* ---------------------------------------------------------------------- *)

NumericFields == {"totalMass", "lossFraction", "processingFactor",
                  "moistureContent", "recoveryEfficiency", "biomassFactor"}

\* an absent (undefined) entry of the error map
NoError == "undefined"

EmptyErrors == [f \in NumericFields |-> NoError]

\* JavaScript truthiness of a string
Truthy(s) == s # <<>>

WATER_DENSITY == Whole(1)

\* Total mass validation
totalMassError(fd) ==
    LET totalMass == parseFloat(fd.totalMass)
    IN  IF ~Truthy(fd.totalMass) \/ IsNaN(totalMass) \/ Le(totalMass, Whole(0))
        THEN "Please enter a valid positive mass value" ELSE NoError

\* lossFractionError with both bounds themselves rejected
lossFractionError_closed(fd) ==
    LET lossFraction == parseFloat(fd.lossFraction)
    IN  IF IsNaN(lossFraction) \/ Le(lossFraction, Whole(0))
              \/ Le(Whole(100), lossFraction)
        THEN "Loss fraction must be between 0 and 100%" ELSE NoError

\* lossFractionError without the upper bound
lossFractionError_unbounded(fd) ==
    LET lossFraction == parseFloat(fd.lossFraction)
    IN  IF IsNaN(lossFraction) \/ Lt(lossFraction, Whole(0))
        THEN "Loss fraction must be between 0 and 100%" ELSE NoError

\* Loss fraction validation
lossFractionError(fd) ==
    LET lossFraction == parseFloat(fd.lossFraction)
    IN  IF IsNaN(lossFraction) \/ Lt(lossFraction, Whole(0))
              \/ Gt(lossFraction, Whole(100))
        THEN "Loss fraction must be between 0 and 100%" ELSE NoError

\* Processing factor validation
processingFactorError(fd) ==
    LET processingFactor == parseFloat(fd.processingFactor)
    IN  IF IsNaN(processingFactor) \/ Le(processingFactor, Whole(0))
        THEN "Processing factor must be a positive number" ELSE NoError

\* Moisture content validation
moistureContentError(fd) ==
    LET moistureContent == parseFloat(fd.moistureContent)
    IN  IF IsNaN(moistureContent) \/ Lt(moistureContent, Whole(0))
              \/ Gt(moistureContent, Whole(100))
        THEN "Moisture content must be between 0 and 100%" ELSE NoError

\* Recovery efficiency validation
recoveryEfficiencyError(fd) ==
    LET recoveryEfficiency == parseFloat(fd.recoveryEfficiency)
    IN  IF IsNaN(recoveryEfficiency) \/ Lt(recoveryEfficiency, Whole(0))
              \/ Gt(recoveryEfficiency, Whole(100))
        THEN "Recovery efficiency must be between 0 and 100%" ELSE NoError

\* Biomass factor validation
biomassFactorError(fd) ==
    LET biomassFactor == parseFloat(fd.biomassFactor)
    IN  IF IsNaN(biomassFactor) \/ Le(biomassFactor, Whole(0))
        THEN "Biomass factor must be a positive number" ELSE NoError

\* NewErrors stopping at the first failing field, in the order of the checks
NewErrors_shortCircuit(fd) ==
    LET order == <<"totalMass", "lossFraction", "processingFactor",
                   "moistureContent", "recoveryEfficiency", "biomassFactor">>
        msg   == <<totalMassError(fd), lossFractionError(fd),
                   processingFactorError(fd), moistureContentError(fd),
                   recoveryEfficiencyError(fd), biomassFactorError(fd)>>
    IN  [f \in NumericFields |->
           LET i == CHOOSE k \in 1..6 : order[k] = f
           IN  IF \E j \in 1..(i - 1) : msg[j] # NoError THEN NoError ELSE msg[i]]

\* the error map newErrors that validateInputs builds for the form fd and
\* passes to setErrors
NewErrors(fd) ==
    [f \in NumericFields |->
        CASE f = "totalMass"          -> totalMassError(fd)
          [] f = "lossFraction"       -> lossFractionError(fd)
          [] f = "processingFactor"   -> processingFactorError(fd)
          [] f = "moistureContent"    -> moistureContentError(fd)
          [] f = "recoveryEfficiency" -> recoveryEfficiencyError(fd)
          [] f = "biomassFactor"      -> biomassFactorError(fd)]

\* the return value of validateInputs: Object.keys(newErrors).length === 0
validateInputs(fd) == \A f \in NumericFields : NewErrors(fd)[f] = NoError

\* waterVolume rounded to two decimals before it is stored
waterVolume_rounded(fd) ==
    LET v == Mul(Mul(Mul(Mul(Mul(parseFloat(fd.totalMass), parseFloat(fd.biomassFactor)),
                             Sub(Whole(1), Div(parseFloat(fd.lossFraction), Whole(100)))),
                         parseFloat(fd.processingFactor)),
                     Div(parseFloat(fd.moistureContent), Whole(100))),
                 Div(parseFloat(fd.recoveryEfficiency), Whole(100)))
    IN  IF IsNaN(v) THEN NaN ELSE parseFloat(toFixed(v, 2))

\* the value calculateWaterVolume stores for the form fd
waterVolume(fd) ==
    LET M_h == parseFloat(fd.totalMass)
        L_c == Div(parseFloat(fd.lossFraction), Whole(100))
        E_p == parseFloat(fd.processingFactor)
        MC  == Div(parseFloat(fd.moistureContent), Whole(100))
        eta == Div(parseFloat(fd.recoveryEfficiency), Whole(100))
        F_b == parseFloat(fd.biomassFactor)
    IN  Div(Mul(Mul(Mul(Mul(Mul(M_h, F_b), Sub(Whole(1), L_c)), E_p), MC), eta),
            WATER_DENSITY)

\* formatResult with the liter range starting above 1 instead of at 1
formatResult_openAtOne(volume) ==
    IF Lt(volume, Num(1, 1000))
    THEN toFixed(Mul(volume, Whole(1000)), 2) \o <<" ", "m", "L">>
    ELSE IF Le(volume, Whole(1))
    THEN toFixed(Mul(volume, Whole(1000)), 0) \o <<" ", "m", "L">>
    ELSE IF Lt(volume, Whole(1000))
    THEN toFixed(volume, 2) \o <<" ", "L">>
    ELSE toFixed(Div(volume, Whole(1000)), 2) \o <<" ", "m", "3">>

formatResult(volume) ==
    IF Lt(volume, Num(1, 1000))
    THEN toFixed(Mul(volume, Whole(1000)), 2) \o <<" ", "m", "L">>
    ELSE IF Lt(volume, Whole(1))
    THEN toFixed(Mul(volume, Whole(1000)), 0) \o <<" ", "m", "L">>
    ELSE IF Lt(volume, Whole(1000))
    THEN toFixed(volume, 2) \o <<" ", "L">>
    ELSE toFixed(Div(volume, Whole(1000)), 2) \o <<" ", "m", "3">>   \* "m3" stands for the cubic-metre sign

(* ---------------------------------------------------------------------- *)
(* Values the user types into the number inputs.  A number input delivers  *)
(* either the empty string or a valid floating-point literal.              *)
(* ---------------------------------------------------------------------- *)

InputValues(field) ==
    CASE field = "totalMass" ->
           {<<>>, <<"0">>, <<"1", "0">>, <<"1", "0", "0">>}
      [] field = "lossFraction" ->
           {<<"2", "0">>, <<"1", "0", "0">>, <<"1", "5", "0">>}
      [] field = "processingFactor" ->
           {<<"1", ".", "0">>, <<"0">>}
      [] field = "moistureContent" ->
           {<<"7", "2", ".", "5">>, <<"7", "0">>, <<"1", "0", "1">>}
      [] field = "recoveryEfficiency" ->
           {<<"5", "0">>, <<"-", "1">>}
      [] field = "biomassFactor" ->
           {<<"0", ".", "1", "7", "5">>, <<"0", ".", "2">>, <<"0">>}

(* ---------------------------------------------------------------------- *)
(* State                                                                   *)
(* ---------------------------------------------------------------------- *)

VARIABLES
    formData,        \* the form: cropType and six strings
    errors,          \* field -> message or NoError
    result,          \* Null or a number
    isCalculating,
    showResult,
    isDropdownOpen,
    pending,         \* forms captured by calculateWaterVolume calls suspended in the 800 ms delay
    last,            \* the event handled last: [op, arg]
    events           \* number of user events handled so far

vars == <<formData, errors, result, isCalculating, showResult,
          isDropdownOpen, pending, last, events>>

\* user events explored per behaviour
MaxEvents == 6

UserEvent ==
    /\ events < MaxEvents
    /\ events' = events + 1

Null == [kind |-> "null", n |-> 0, d |-> 1]

\* useState initial value of formData
InitialFormData ==
    [cropType           |-> "tunisian-olive",
     totalMass          |-> <<>>,
     lossFraction       |-> <<"2", "0">>,
     processingFactor   |-> <<"1", ".", "0">>,
     moistureContent    |-> <<"7", "2", ".", "5">>,
     recoveryEfficiency |-> <<"5", "0">>,
     biomassFactor      |-> <<"0", ".", "1", "7", "5">>]

\* CropEffect overwriting biomassFactor only
CropEffect_onlyBiomass(fd) ==
    LET i == CropFind(fd.cropType)
    IN  IF i # 0
        THEN [fd EXCEPT !.biomassFactor = NumberToString(CROP_TYPES[i].biomassFactor)]
        ELSE fd

\* CropEffect building the new form from the initial one instead of prev
CropEffect_fromInitial(fd) ==
    LET i == CropFind(fd.cropType)
    IN  IF i # 0
        THEN [InitialFormData EXCEPT
                !.cropType        = fd.cropType,
                !.biomassFactor   = NumberToString(CROP_TYPES[i].biomassFactor),
                !.moistureContent = NumberToString(CROP_TYPES[i].moistureContent)]
        ELSE fd

\* the crop-change effect: overwrite biomassFactor and moistureContent
\* with the catalog entry's values, when cropType is found
CropEffect(fd) ==
    LET i == CropFind(fd.cropType)
    IN  IF i # 0
        THEN [fd EXCEPT !.biomassFactor   = NumberToString(CROP_TYPES[i].biomassFactor),
                        !.moistureContent = NumberToString(CROP_TYPES[i].moistureContent)]
        ELSE fd

\* calculateWaterVolume(true) run to completion on the form fd of the
\* calling render; st is [errors, result, isCalculating, showResult]
CalculateNow(fd, st) ==
    IF ~validateInputs(fd)
    THEN [st EXCEPT !.errors = NewErrors(fd)]
    ELSE [errors        |-> NewErrors(fd),
          result        |-> waterVolume(fd),
          isCalculating |-> FALSE,
          showResult    |-> TRUE]

\* the auto-recalculate effect, run in a render whose form is fd
AutoRecalcEffect(fd, st) ==
    IF st.showResult /\ Truthy(fd.totalMass)
    THEN IF validateInputs(fd)
         THEN CalculateNow(fd, [st EXCEPT !.errors = NewErrors(fd)])
         ELSE [st EXCEPT !.errors = NewErrors(fd)]
    ELSE st

CurrentSt ==
    [errors |-> errors, result |-> result,
     isCalculating |-> isCalculating, showResult |-> showResult]

SetSt(st) ==
    /\ errors' = st.errors
    /\ result' = st.result
    /\ isCalculating' = st.isCalculating
    /\ showResult' = st.showResult

\* the state after the first render and its effects
Init ==
    /\ formData = CropEffect(InitialFormData)
    /\ errors = EmptyErrors
    /\ result = Null
    /\ isCalculating = FALSE
    /\ showResult = FALSE
    /\ isDropdownOpen = FALSE
    /\ pending = <<>>
    /\ last = [op |-> "init", arg |-> ""]
    /\ events = 0

(* ---------------------------------------------------------------------- *)
(* Event handlers, each with the renders and effects that follow it        *)
(* ---------------------------------------------------------------------- *)

\* handleInputChange whose auto-recalculate effect depends on every field
handleInputChange_allDeps(field, value) ==
    LET fd1  == [formData EXCEPT ![field] = value]
        st1  == [CurrentSt EXCEPT !.errors =
                    IF errors[field] # NoError
                    THEN [errors EXCEPT ![field] = NoError] ELSE errors]
        deps == value # formData[field]
    IN  /\ UserEvent
        /\ formData' = fd1
        /\ SetSt(IF deps THEN AutoRecalcEffect(fd1, st1) ELSE st1)
        /\ last' = [op |-> "edit", arg |-> field]
        /\ UNCHANGED <<isDropdownOpen, pending>>

\* handleInputChange that leaves the edited field's error entry in place
handleInputChange_keepError(field, value) ==
    LET fd1  == [formData EXCEPT ![field] = value]
        deps == /\ field \in {"biomassFactor", "moistureContent"}
                /\ value # formData[field]
    IN  /\ UserEvent
        /\ formData' = fd1
        /\ SetSt(IF deps THEN AutoRecalcEffect(fd1, CurrentSt) ELSE CurrentSt)
        /\ last' = [op |-> "edit", arg |-> field]
        /\ UNCHANGED <<isDropdownOpen, pending>>

\* a number input's onChange
handleInputChange(field, value) ==
    LET fd1  == [formData EXCEPT ![field] = value]
        st1  == [CurrentSt EXCEPT !.errors =
                    IF errors[field] # NoError
                    THEN [errors EXCEPT ![field] = NoError] ELSE errors]
        deps == /\ field \in {"biomassFactor", "moistureContent"}
                /\ value # formData[field]
    IN  /\ UserEvent
        /\ formData' = fd1
        /\ SetSt(IF deps THEN AutoRecalcEffect(fd1, st1) ELSE st1)
        /\ last' = [op |-> "edit", arg |-> field]
        /\ UNCHANGED <<isDropdownOpen, pending>>

\* handleCropTypeChange whose auto-recalculate effect runs on the crop
\* change only, not again after the overwrite
handleCropTypeChange_noRerun(cropId) ==
    LET fd1 == [formData EXCEPT !.cropType = cropId]
        chg == cropId # formData.cropType
        fd2 == IF chg THEN CropEffect(fd1) ELSE fd1
        st1 == IF chg THEN AutoRecalcEffect(fd1, CurrentSt) ELSE CurrentSt
    IN  /\ UserEvent
        /\ isDropdownOpen
        /\ formData' = fd2
        /\ SetSt(st1)
        /\ isDropdownOpen' = FALSE
        /\ last' = [op |-> "selectCrop", arg |-> cropId]
        /\ UNCHANGED pending

\* handleCropTypeChange in which a click on the selected entry deselects
\* it: cropType goes back to the first catalog entry
handleCropTypeChange_deselect(cropId) ==
    LET sel == IF cropId = formData.cropType THEN CROP_TYPES[1].id ELSE cropId
        fd1 == [formData EXCEPT !.cropType = sel]
        chg == sel # formData.cropType
        fd2 == IF chg THEN CropEffect(fd1) ELSE fd1
        st1 == IF chg THEN AutoRecalcEffect(fd1, CurrentSt) ELSE CurrentSt
        dep == \/ fd2.biomassFactor # fd1.biomassFactor
               \/ fd2.moistureContent # fd1.moistureContent
        st2 == IF dep THEN AutoRecalcEffect(fd2, st1) ELSE st1
    IN  /\ UserEvent
        /\ isDropdownOpen
        /\ formData' = fd2
        /\ SetSt(st2)
        /\ isDropdownOpen' = FALSE
        /\ last' = [op |-> "selectCrop", arg |-> cropId]
        /\ UNCHANGED pending

\* a click on an entry of the open crop dropdown
handleCropTypeChange(cropId) ==
    LET fd1 == [formData EXCEPT !.cropType = cropId]
        chg == cropId # formData.cropType
        \* render 1: both effects run on fd1
        fd2 == IF chg THEN CropEffect(fd1) ELSE fd1
        st1 == IF chg THEN AutoRecalcEffect(fd1, CurrentSt) ELSE CurrentSt
        \* render 2: the auto-recalculate effect runs again when the
        \* overwrite changed one of its dependencies
        dep == \/ fd2.biomassFactor # fd1.biomassFactor
               \/ fd2.moistureContent # fd1.moistureContent
        st2 == IF dep THEN AutoRecalcEffect(fd2, st1) ELSE st1
    IN  /\ UserEvent
        /\ isDropdownOpen
        /\ formData' = fd2
        /\ SetSt(st2)
        /\ isDropdownOpen' = FALSE
        /\ last' = [op |-> "selectCrop", arg |-> cropId]
        /\ UNCHANGED pending

\* a click on the dropdown button
ToggleDropdown ==
    /\ UserEvent
    /\ isDropdownOpen' = ~isDropdownOpen
    /\ last' = [op |-> "toggle", arg |-> ""]
    /\ UNCHANGED <<formData, errors, result, isCalculating, showResult, pending>>

\* CalculateClick without the early return on a failed validation
CalculateClick_ungated ==
    /\ UserEvent
    /\ ~isCalculating
    /\ errors' = NewErrors(formData)
    /\ isCalculating' = TRUE
    /\ showResult' = FALSE
    /\ pending' = Append(pending, formData)
    /\ last' = [op |-> "calculate", arg |-> ""]
    /\ UNCHANGED <<formData, result, isDropdownOpen>>

\* CalculateClick that does not hide the result shown
CalculateClick_keepShown ==
    /\ UserEvent
    /\ ~isCalculating
    /\ errors' = NewErrors(formData)
    /\ IF validateInputs(formData)
       THEN /\ isCalculating' = TRUE
            /\ pending' = Append(pending, formData)
       ELSE UNCHANGED <<isCalculating, pending>>
    /\ last' = [op |-> "calculate", arg |-> ""]
    /\ UNCHANGED <<formData, result, showResult, isDropdownOpen>>

\* a click on the Calculate button (disabled while isCalculating):
\* calculateWaterVolume(false) up to its await
CalculateClick ==
    /\ UserEvent
    /\ ~isCalculating
    /\ errors' = NewErrors(formData)
    /\ IF validateInputs(formData)
       THEN /\ isCalculating' = TRUE
            /\ showResult' = FALSE
            /\ pending' = Append(pending, formData)
       ELSE UNCHANGED <<isCalculating, showResult, pending>>
    /\ last' = [op |-> "calculate", arg |-> ""]
    /\ UNCHANGED <<formData, result, isDropdownOpen>>

\* TimerFires computing from the form of the latest render instead of
\* the form of the render that made the call
TimerFires_currentForm ==
    /\ pending # <<>>
    /\ result' = waterVolume(formData)
    /\ isCalculating' = FALSE
    /\ showResult' = TRUE
    /\ pending' = Tail(pending)
    /\ last' = [op |-> "timer", arg |-> ""]
    /\ UNCHANGED <<formData, errors, isDropdownOpen, events>>

\* TimerFires that does not clear isCalculating
TimerFires_keepCalculating ==
    /\ pending # <<>>
    /\ result' = waterVolume(Head(pending))
    /\ showResult' = TRUE
    /\ pending' = Tail(pending)
    /\ last' = [op |-> "timer", arg |-> ""]
    /\ UNCHANGED <<formData, errors, isCalculating, isDropdownOpen, events>>

\* the 800 ms timer fires: calculateWaterVolume(false) after its await,
\* still reading the formData of the render that called it
TimerFires ==
    /\ pending # <<>>
    /\ result' = waterVolume(Head(pending))
    /\ isCalculating' = FALSE
    /\ showResult' = TRUE
    /\ pending' = Tail(pending)
    /\ last' = [op |-> "timer", arg |-> ""]
    /\ UNCHANGED <<formData, errors, isDropdownOpen, events>>

Next ==
    \/ \E field \in NumericFields : \E value \in InputValues(field) :
          handleInputChange(field, value)
    \/ \E cropId \in CropIds : handleCropTypeChange(cropId)
    \/ ToggleDropdown
    \/ CalculateClick
    \/ TimerFires

Spec == Init /\ [][Next]_vars

\* the events that start, outlast or complete a calculation, with the
\* edits limited to totalMass and biomassFactor
NextLive ==
    \/ \E field \in {"totalMass", "biomassFactor"} :
          \E value \in InputValues(field) : handleInputChange(field, value)
    \/ \E cropId \in CropIds : handleCropTypeChange(cropId)
    \/ ToggleDropdown
    \/ CalculateClick
    \/ TimerFires

\* the step of a due timer: the oldest suspended call leaves the queue.
\* TimerFires is the only action that takes such a step, and it can take
\* one whenever a call is suspended (C19 checks both directions).
TimerStep == pending # <<>> /\ pending' = Tail(pending)

\* the timer set by setTimeout(resolve, 800) fires: a suspended call does
\* not stay suspended forever
SpecLive == Init /\ [][NextLive]_vars /\ WF_pending(TimerStep)

(* ---------------------------------------------------------------------- *)
(* Validation over boundary inputs: every form over BoundaryValues, then   *)
(* the Calculate button and the timer                                      *)
(* ---------------------------------------------------------------------- *)

PercentFields == {"lossFraction", "moistureContent", "recoveryEfficiency"}

FactorFields == {"processingFactor", "biomassFactor"}

BoundaryValues(field) ==
    IF field = "totalMass"
    THEN {<<>>, <<"0">>, <<"-", "5">>, <<"0", ".", "0", "0", "0", "1">>, <<"1", "0", "0">>}
    ELSE IF field \in PercentFields
    THEN {<<>>, <<"0">>, <<"1", "0", "0">>, <<"5", "0">>,
          <<"-", "0", ".", "0", "0", "0", "1">>,
          <<"1", "0", "0", ".", "0", "0", "0", "1">>}
    ELSE {<<>>, <<"0">>, <<"-", "1">>, <<"0", ".", "5">>}

InitValidate ==
    /\ formData \in [cropType           : {"tunisian-olive"},
                      totalMass          : BoundaryValues("totalMass"),
                      lossFraction       : BoundaryValues("lossFraction"),
                      processingFactor   : BoundaryValues("processingFactor"),
                      moistureContent    : BoundaryValues("moistureContent"),
                      recoveryEfficiency : BoundaryValues("recoveryEfficiency"),
                      biomassFactor      : BoundaryValues("biomassFactor")]
    /\ errors = EmptyErrors
    /\ result = Null
    /\ isCalculating = FALSE
    /\ showResult = FALSE
    /\ isDropdownOpen = FALSE
    /\ pending = <<>>
    /\ last = [op |-> "init", arg |-> ""]
    /\ events = 0

NextValidate == CalculateClick \/ TimerFires

SpecValidate == InitValidate /\ [][NextValidate]_vars

(* ---------------------------------------------------------------------- *)
(* Formatting at the unit boundaries: a form whose result equals           *)
(* totalMass / 5, with totalMass chosen to hit the boundaries              *)
(* ---------------------------------------------------------------------- *)

FormatMasses ==
    { <<"0", ".", "0", "0", "4", "9", "9", "9", "5">>,   \* 0.0009999 L
      <<"0", ".", "0", "0", "5">>,                        \* 0.001 L
      <<"4", ".", "9", "9", "5">>,                        \* 0.999 L
      <<"5">>,                                            \* 1 L
      <<"4", "9", "9", "9", ".", "9", "9", "5">>,         \* 999.999 L
      <<"5", "0", "0", "0">>,                             \* 1000 L
      <<"0", ".", "0", "0", "0", "2", "5">>,              \* 0.00005 L
      <<"6", "1", ".", "7">>,                             \* 12.34 L
      <<"7", "5", "0", "0">> }                            \* 1500 L

InitFormat ==
    /\ formData = [cropType           |-> "koroneiki-olive",
                   totalMass          |-> <<>>,
                   lossFraction       |-> <<"0">>,
                   processingFactor   |-> <<"1">>,
                   moistureContent    |-> <<"1", "0", "0">>,
                   recoveryEfficiency |-> <<"1", "0", "0">>,
                   biomassFactor      |-> <<"0", ".", "2">>]
    /\ errors = EmptyErrors
    /\ result = Null
    /\ isCalculating = FALSE
    /\ showResult = FALSE
    /\ isDropdownOpen = FALSE
    /\ pending = <<>>
    /\ last = [op |-> "init", arg |-> ""]
    /\ events = 0

NextFormat ==
    \/ \E value \in FormatMasses : handleInputChange("totalMass", value)
    \/ CalculateClick
    \/ TimerFires

SpecFormat == InitFormat /\ [][NextFormat]_vars

\* the text of the results card: formatResult(result) when a result is
\* shown, empty otherwise
Displayed ==
    IF showResult /\ result # Null THEN formatResult(result) ELSE <<>>

(* ---------------------------------------------------------------------- *)
(* Properties                                                              *)
(* ---------------------------------------------------------------------- *)

\* the formula as the specification writes it, on the six numeric fields
SpecVolume(fd) ==
    Div(Mul(Mul(Mul(Mul(Mul(parseFloat(fd.totalMass),
                            parseFloat(fd.biomassFactor)),
                        Sub(Whole(1), Div(parseFloat(fd.lossFraction), Whole(100)))),
                    parseFloat(fd.processingFactor)),
                Div(parseFloat(fd.moistureContent), Whole(100))),
            Div(parseFloat(fd.recoveryEfficiency), Whole(100))),
        Whole(1))

\* the documented range of a field, on the text s of the field
DocumentedReject(field, s) ==
    LET v == parseFloat(s)
    IN  IF field = "totalMass"
        THEN s = <<>> \/ IsNaN(v) \/ ~Gt(v, Whole(0))
        ELSE IF field \in FactorFields
        THEN IsNaN(v) \/ ~Gt(v, Whole(0))
        ELSE IsNaN(v) \/ Lt(v, Whole(0)) \/ Gt(v, Whole(100))

FormPasses(fd) == \A f \in NumericFields : ~DocumentedReject(f, fd[f])

\* C1: every result that a step stores is the formula totalMass *
\* biomassFactor * (1 - lossFraction/100) * processingFactor *
\* (moistureContent/100) * (recoveryEfficiency/100) / 1, unrounded, of the
\* six numeric fields of the form the calculation ran on (the form captured
\* at the click for a delayed calculation, the settled form for an
\* automatic one), and that form passes validation; crop id, previous
\* result, error map and delay flag do not enter the value.
C1_ResultIsFormula ==
    [][/\ (last'.op = "timer" /\ pending # <<>>) =>
            /\ FormPasses(Head(pending))
            /\ result' = SpecVolume(Head(pending))
       /\ (last'.op # "timer" /\ result' # result) =>
            /\ FormPasses(formData')
            /\ result' = SpecVolume(formData')]_vars

\* C1 witness: a delayed and an automatic calculation have each stored the
\* formula's value for their form (5.075 for the default crop and 100 kg;
\* 5.6 after the change to koroneiki-olive)
C1_Witness ==
    \/ /\ last.op = "timer"
       /\ formData.totalMass = <<"1", "0", "0">>
       /\ result = Num(5075, 1000)
    \/ /\ last.op = "selectCrop"
       /\ formData.cropType = "koroneiki-olive"
       /\ showResult
       /\ result = Num(56, 10)

\* C2: after validateInputs has run on the form, a field has an error
\* entry exactly when its text is outside the documented range: totalMass
\* missing, non-numeric or <= 0; processingFactor, biomassFactor
\* non-numeric or <= 0; the three percentages non-numeric, < 0 or > 100
\* (0 and 100 accepted).
C2_ValidateMatchesRanges ==
    last.op = "calculate" =>
        \A f \in NumericFields :
            (errors[f] # NoError) <=> DocumentedReject(f, formData[f])

\* C2 witness: validation accepted the boundary 100 and rejected 100.0001
C2_Witness ==
    /\ last.op = "calculate"
    /\ formData.lossFraction = <<"1", "0", "0">>
    /\ errors["lossFraction"] = NoError
    /\ formData.moistureContent = <<"1", "0", "0", ".", "0", "0", "0", "1">>
    /\ errors["moistureContent"] # NoError
    /\ formData.recoveryEfficiency = <<"0">>
    /\ errors["recoveryEfficiency"] = NoError

\* the field whose edit or the crop whose selection re-ran the
\* auto-recalculate effect on a shown result with a non-empty totalMass
AutoTriggered ==
    /\ showResult
    /\ Truthy(formData'.totalMass)
    /\ \/ /\ last'.op = "edit"
          /\ last'.arg \in {"biomassFactor", "moistureContent"}
          /\ formData'[last'.arg] # formData[last'.arg]
       \/ /\ last'.op = "selectCrop"
          /\ formData'.cropType # formData.cropType

ReferenceForm == [InitialFormData EXCEPT !.totalMass = <<"1", "0", "0">>]

\* C4: after one validateInputs call a field has an entry exactly when
\* its own value, put alone into an otherwise valid form, fails; so the
\* number of entries is the number of failing fields.
C4_FieldsIndependent ==
    last.op = "calculate" =>
        /\ \A f \in NumericFields :
              (errors[f] # NoError) <=>
                  ~FormPasses([ReferenceForm EXCEPT ![f] = formData[f]])
        /\ Cardinality({f \in NumericFields : errors[f] # NoError})
              = Cardinality({f \in NumericFields : DocumentedReject(f, formData[f])})

\* C4 witness: three fields fail at once and all three are reported
C4_Witness ==
    /\ last.op = "calculate"
    /\ {f \in NumericFields : errors[f] # NoError}
          = {"totalMass", "lossFraction", "biomassFactor"}

\* position of the first occurrence of the character c in s, 0 if none
PosOf(s, c) ==
    IF \E i \in 1..Len(s) : s[i] = c
    THEN CHOOSE i \in 1..Len(s) : s[i] = c /\ \A j \in 1..(i - 1) : s[j] # c
    ELSE 0

\* the unit of a formatted result: the text after the blank
UnitOf(s) == SubSeq(s, PosOf(s, " ") + 1, Len(s))

\* the number of a formatted result: the text before the blank
NumberOf(s) == SubSeq(s, 1, PosOf(s, " ") - 1)

\* how many digits follow the decimal point of a formatted result
DecimalsOf(s) ==
    IF PosOf(NumberOf(s), ".") = 0 THEN 0
    ELSE Len(NumberOf(s)) - PosOf(NumberOf(s), ".")

\* C5: the displayed text of a result v has unit mL and 2 decimals of
\* v*1000 when v < 0.001, unit mL and 0 decimals of v*1000 when
\* 0.001 <= v < 1, unit L and 2 decimals of v when 1 <= v < 1000, unit m3
\* and 2 decimals of v/1000 when v >= 1000; with the six boundary values
\* 0.0009999, 0.001, 0.999, 1, 999.999 and 1000 falling as stated.
C5_FormatRanges ==
    (showResult /\ result # Null) =>
        LET v == result
            s == Displayed
            mL == <<"m", "L">>
            L  == <<"L">>
            m3 == <<"m", "3">>
        IN  /\ Lt(v, Num(1, 1000)) =>
                  /\ UnitOf(s) = mL /\ DecimalsOf(s) = 2
                  /\ NumberOf(s) = toFixed(Mul(v, Whole(1000)), 2)
            /\ (Le(Num(1, 1000), v) /\ Lt(v, Whole(1))) =>
                  /\ UnitOf(s) = mL /\ DecimalsOf(s) = 0
                  /\ NumberOf(s) = toFixed(Mul(v, Whole(1000)), 0)
            /\ (Le(Whole(1), v) /\ Lt(v, Whole(1000))) =>
                  /\ UnitOf(s) = L /\ DecimalsOf(s) = 2
                  /\ NumberOf(s) = toFixed(v, 2)
            /\ Le(Whole(1000), v) =>
                  /\ UnitOf(s) = m3 /\ DecimalsOf(s) = 2
                  /\ NumberOf(s) = toFixed(Div(v, Whole(1000)), 2)
            /\ v = Num(9999, 10000000) => s = <<"1", ".", "0", "0", " ", "m", "L">>
            /\ v = Num(1, 1000)        => s = <<"1", " ", "m", "L">>
            /\ v = Num(999, 1000)      => s = <<"9", "9", "9", " ", "m", "L">>
            /\ v = Whole(1)            => s = <<"1", ".", "0", "0", " ", "L">>
            /\ v = Num(999999, 1000)   => s = <<"1", "0", "0", "0", ".", "0", "0", " ", "L">>
            /\ v = Whole(1000)         => s = <<"1", ".", "0", "0", " ", "m", "3">>

\* C5 witness: the result exactly 1 L is displayed in liters
C5_Witness ==
    /\ showResult
    /\ result = Whole(1)
    /\ Displayed = <<"1", ".", "0", "0", " ", "L">>

\* the catalog text of the crop id: the strings its entry's
\* biomassFactor and moistureContent print as
HasCatalogValues(fd, id) ==
    /\ parseFloat(fd.biomassFactor) = SelectedCropOf(id).biomassFactor
    /\ parseFloat(fd.moistureContent) = SelectedCropOf(id).moistureContent

\* C6 as claimed: after any selectCrop(id), also of the id already
\* selected, biomassFactor and moistureContent are the catalog's for id.
C6_Original ==
    last.op = "selectCrop" => HasCatalogValues(formData, last.arg)

\* C6 amended: after selectCrop(id) with id different from the crop
\* selected before, biomassFactor and moistureContent are the catalog's
\* values for id and cropType is id, whatever the form held before.
C6_OverwriteOnChange ==
    [][(last'.op = "selectCrop" /\ last'.arg # formData.cropType) =>
          /\ formData'.cropType = last'.arg
          /\ HasCatalogValues(formData', last'.arg)]_vars

\* C6 witness: apple-tree was selected and the form holds 0.12 and 80
C6_Witness ==
    /\ last.op = "selectCrop"
    /\ formData.cropType = "apple-tree"
    /\ formData.biomassFactor = <<"0", ".", "1", "2">>
    /\ formData.moistureContent = <<"8", "0">>

\* C7: selectCrop leaves totalMass, lossFraction, processingFactor and
\* recoveryEfficiency as they were, through the overwrite and the
\* automatic recomputation.
C7_SelectCropFrame ==
    [][last'.op = "selectCrop" =>
          /\ formData'.totalMass = formData.totalMass
          /\ formData'.lossFraction = formData.lossFraction
          /\ formData'.processingFactor = formData.processingFactor
          /\ formData'.recoveryEfficiency = formData.recoveryEfficiency]_vars

\* C7 witness: a crop was selected with a result shown (the recomputation
\* ran) and the user's four fields hold edited values
C7_Witness ==
    /\ last.op = "selectCrop"
    /\ formData.cropType # "tunisian-olive"
    /\ showResult
    /\ formData.totalMass = <<"1", "0">>
    /\ formData.lossFraction = <<"1", "0", "0">>

\* C8: when a result is shown, the user selects a different crop and the
\* settled form passes validation, the step itself (no pending delay)
\* leaves the result shown and equal to the formula on the form with the
\* new crop's biomassFactor and moistureContent and the other four fields
\* as they were.
C8_RecomputeOnCropChange ==
    [][(/\ last'.op = "selectCrop"
        /\ last'.arg # formData.cropType
        /\ showResult /\ result # Null
        /\ FormPasses(formData')) =>
          /\ showResult' /\ ~isCalculating' /\ pending' = <<>>
          /\ HasCatalogValues(formData', last'.arg)
          /\ result' = SpecVolume([formData EXCEPT
                  !.biomassFactor   = formData'.biomassFactor,
                  !.moistureContent = formData'.moistureContent])]_vars

\* C8 witness: after 100 kg of tunisian-olive gave 5.075, apple-tree was
\* selected and the shown result is 100*0.12*0.8*1*0.8*0.5 = 3.84
C8_Witness ==
    /\ last.op = "selectCrop"
    /\ formData.cropType = "apple-tree"
    /\ formData.totalMass = <<"1", "0", "0">>
    /\ formData.lossFraction = <<"2", "0">>
    /\ showResult
    /\ result = Num(384, 100)

\* C9: whenever a result is displayed, the current form passes
\* validation.
C9_DisplayedImpliesValid ==
    (showResult /\ result # Null) => FormPasses(formData)

\* C10: the stored result is absent or >= 0.
C10_ResultNonNegative ==
    result = Null \/ Le(Whole(0), result)

\* C10 witness: results at the boundary and inside: 0 with lossFraction
\* 100, and a positive one
C10_Witness ==
    /\ showResult
    /\ result = Whole(0)
    /\ formData.lossFraction = <<"1", "0", "0">>

\* C11: selecting a crop makes it the selected one, and selecting the crop
\* that is already selected (the second of two selections in succession)
\* changes no field of the form: biomassFactor and moistureContent keep
\* the values the first selection left and the other fields are untouched.
C11_SelectIdempotent ==
    [][last'.op = "selectCrop" =>
          /\ formData'.cropType = last'.arg
          /\ (last'.arg = formData.cropType => formData' = formData)]_vars

\* C11 witness: koroneiki-olive selected twice in succession (open,
\* select, open, select) on the untouched form
C11_Witness ==
    /\ last.op = "selectCrop"
    /\ last.arg = "koroneiki-olive"
    /\ events = 4
    /\ formData = [InitialFormData EXCEPT
                      !.cropType        = "koroneiki-olive",
                      !.biomassFactor   = <<"0", ".", "2">>,
                      !.moistureContent = <<"7", "0">>]

\* C12: a Calculate click on a valid form suspends exactly that form; no
\* edit, crop selection or dropdown click touches the suspended call; the
\* timer then leaves result, showResult and isCalculating as the call
\* without the delay leaves them for the same form; and no edit or crop
\* selection (automatic recomputation) ever suspends a call.
C12_DelayKeepsResult ==
    [][/\ (last'.op = "calculate" /\ FormPasses(formData)) =>
            pending' = Append(pending, formData)
       /\ last'.op \in {"edit", "selectCrop", "toggle"} => pending' = pending
       /\ (last'.op = "timer" /\ pending # <<>>) =>
            LET now == CalculateNow(Head(pending), CurrentSt)
            IN  /\ result' = now.result
                /\ result' = SpecVolume(Head(pending))
                /\ showResult' = now.showResult
                /\ isCalculating' = now.isCalculating]_vars

\* C12 witness: the timer fired after the form was edited during the
\* delay: the form now holds 10 kg, the result is that of the 100 kg the
\* call started with
C12_Witness ==
    /\ last.op = "timer"
    /\ formData.totalMass = <<"1", "0">>
    /\ result = Num(5075, 1000)
    /\ showResult

\* the edit re-ran validation: biomassFactor or moistureContent changed
\* while a result was shown and totalMass was not empty
EditRevalidates ==
    /\ last'.op = "edit"
    /\ last'.arg \in {"biomassFactor", "moistureContent"}
    /\ formData'[last'.arg] # formData[last'.arg]
    /\ showResult
    /\ Truthy(formData'.totalMass)

\* C13 as claimed: after any edit of a field f the entry of every other
\* field is what it was, and an entry for f, if any, is due to f's new
\* value.
C13_Original ==
    [][last'.op = "edit" =>
          /\ \A g \in NumericFields \ {last'.arg} : errors'[g] = errors[g]
          /\ errors'[last'.arg] # NoError =>
                DocumentedReject(last'.arg, formData'[last'.arg])]_vars

\* C13 amended: an edit of f that does not re-run validation clears f's
\* entry and leaves every other entry as it was; an edit that re-runs
\* validation (biomassFactor or moistureContent changed while a result is
\* shown and totalMass is not empty) replaces the whole error map by the
\* validation of the new form.
C13_EditClearsOwnError ==
    [][last'.op = "edit" =>
          IF EditRevalidates
          THEN \A g \in NumericFields :
                  (errors'[g] # NoError) <=> DocumentedReject(g, formData'[g])
          ELSE /\ errors'[last'.arg] = NoError
               /\ \A g \in NumericFields \ {last'.arg} : errors'[g] = errors[g]]_vars

\* C13 witness: after a failed validation reported totalMass and
\* lossFraction, the edit of totalMass cleared its entry only
C13_Witness ==
    /\ last.op = "edit"
    /\ last.arg = "totalMass"
    /\ errors["totalMass"] = NoError
    /\ errors["lossFraction"] # NoError

\* C14: from the initial form, typing totalMass = 100 and pressing
\* Calculate gives, when the timer fires, the result 5.075 displayed as
\* "5.08 L"; typing totalMass = 10 gives 0.5075 displayed as "508 mL".
\* (Two user events: the edit and the click.)
C14_EndToEnd ==
    (events = 2 /\ last.op = "timer") =>
        /\ formData = [InitialFormData EXCEPT !.totalMass = formData.totalMass]
        /\ formData.totalMass = <<"1", "0", "0">> =>
              /\ result = Num(5075, 1000)
              /\ Displayed = <<"5", ".", "0", "8", " ", "L">>
        /\ formData.totalMass = <<"1", "0">> =>
              /\ result = Num(5075, 10000)
              /\ Displayed = <<"5", "0", "8", " ", "m", "L">>

\* C14 witness: the 10 kg scenario has run to its displayed result
C14_Witness ==
    /\ events = 2
    /\ last.op = "timer"
    /\ formData.totalMass = <<"1", "0">>
    /\ Displayed = <<"5", "0", "8", " ", "m", "L">>

(* ---------------------------------------------------------------------- *)
(* Crop selection with an id that is not in the catalog.  The dropdown     *)
(* only offers catalog ids; handleCropTypeChange takes any string.         *)
(* ---------------------------------------------------------------------- *)

UnknownCropId == "unknown-crop"

NextLookup ==
    \/ \E field \in {"totalMass", "biomassFactor"} :
          \E value \in InputValues(field) : handleInputChange(field, value)
    \/ \E cropId \in CropIds \cup {UnknownCropId} : handleCropTypeChange(cropId)
    \/ ToggleDropdown
    \/ CalculateClick
    \/ TimerFires

SpecLookup == Init /\ [][NextLookup]_vars

OtherFields == {"totalMass", "lossFraction", "processingFactor", "recoveryEfficiency"}

\* C16: an edit of totalMass, lossFraction, processingFactor or
\* recoveryEfficiency changes only that field of the form and that
\* field's error entry, and leaves result, showResult, isCalculating and
\* the suspended calls as they were; a step other than the timer changes
\* the result only if it changes cropType, biomassFactor or
\* moistureContent.
C16_OtherEditsDoNotRecompute ==
    [][/\ (last'.op = "edit" /\ last'.arg \in OtherFields) =>
            /\ UNCHANGED <<result, showResult, isCalculating, pending>>
            /\ \A g \in (NumericFields \cup {"cropType"}) \ {last'.arg} :
                   formData'[g] = formData[g]
            /\ \A g \in NumericFields \ {last'.arg} : errors'[g] = errors[g]
       /\ (last'.op # "timer" /\ result' # result) =>
            \/ formData'.cropType # formData.cropType
            \/ formData'.biomassFactor # formData.biomassFactor
            \/ formData'.moistureContent # formData.moistureContent]_vars

\* C16 witness: with the result of 100 kg shown, totalMass was edited to
\* 10 and the result is still 5.075
C16_Witness ==
    /\ last.op = "edit"
    /\ last.arg = "totalMass"
    /\ formData.totalMass = <<"1", "0">>
    /\ showResult
    /\ result = Num(5075, 1000)

\* C17 as claimed: when the timer of a delayed calculation fires after the
\* user has selected a different crop (the form holds that crop's catalog
\* values), the result stored and displayed is the formula on the form's
\* current biomassFactor and moistureContent (the other four fields as
\* the calculation started with).
C17_NoStaleCropResult ==
    [][(/\ last'.op = "timer"
        /\ pending # <<>>
        /\ Head(pending).cropType # formData.cropType
        /\ HasCatalogValues(formData, formData.cropType)) =>
          /\ showResult'
          /\ result' = SpecVolume([Head(pending) EXCEPT
                  !.biomassFactor   = formData.biomassFactor,
                  !.moistureContent = formData.moistureContent])]_vars

\* C18: showResult and isCalculating are never both set, a shown result
\* is a stored one, and the initial state has no result, shows nothing
\* and calculates nothing.
C18_DisplayConsistent ==
    /\ ~(showResult /\ isCalculating)
    /\ showResult => result # Null
    /\ last.op = "init" => (result = Null /\ ~showResult /\ ~isCalculating)

\* C18 witness: a second calculation is under way: the earlier result is
\* still stored but hidden
C18_Witness ==
    /\ isCalculating
    /\ ~showResult
    /\ result # Null
    /\ pending # <<>>

\* C19: a Calculate click on a valid form sets isCalculating; while
\* isCalculating is set exactly one call is suspended and no Calculate
\* click is handled; the steps that take a suspended call off the queue
\* are exactly the timer's; and, the timer being fair, isCalculating leads
\* to a state where it is cleared, a result is stored and the result is
\* shown.
C19_CalculationCompletes ==
    /\ [][(last'.op = "calculate" /\ events' # events /\ FormPasses(formData))
            => (isCalculating' /\ ~isCalculating)]_vars
    /\ [](isCalculating <=> Len(pending) = 1)
    /\ [](Len(pending) <= 1)
    /\ [][TimerStep <=> TimerFires]_vars
    /\ isCalculating ~> (~isCalculating /\ result # Null /\ showResult)

\* C19 witness: a delayed calculation has completed
C19_Witness ==
    /\ last.op = "timer"
    /\ ~isCalculating
    /\ showResult
    /\ result # Null
    /\ pending = <<>>

====
